---------------------------- MODULE Spec2Model ----------------------------
(***************************************************************************)
(* Model of signac's FileBufferedCollection                                *)
(* (signac/core/file_buffered_synced_collection.py): the write-back buffer *)
(* of file-backed synced collections.  Every concrete backend class owns a *)
(* cache (path -> entry) and a list of the instances that put data in it.  *)
(* The primitives _load_buffer, _sync_buffer, _flush and _flush_buffer are *)
(* translated statement by statement.  The framework around them           *)
(* (BufferedCollection: the buffered scopes, to_base, _sync) is not part   *)
(* of the source tree and is modelled from the specification.              *)
(* A second part models the context-manager protocol of compdb's Job       *)
(* (src/compdb/contrib/job.py): __enter__ and __exit__ of several Job      *)
(* instances of one job id, with the job document's 'executing' list, the  *)
(* document lock and the workspace directory.                              *)
(***************************************************************************)
EXTENDS Integers, Sequences, FiniteSets, TLC

\* ------------------------------------------------------------------ bounds
\* Deepest nesting of buffered scopes of one instance.
MaxDepth == 2
\* Longest list of registered instances of one backend class.
MaxReg == 2
\* Deepest nesting of with-blocks of one Job instance.
MaxNest == 2

\* ------------------------------------------------------------ sample values
Inst == {1, 2}
Paths == {"a.json", "b.json"}
\* The concrete backend classes (subclasses of FileBufferedCollection).
Types == {"JSONDict", "JSONList"}
Base == "FileBufferedCollection"
\* JSON-compatible documents, as to_base() returns them.
Docs == {"x1", "x2"}
\* os.stat results (st_size, st_mtime) of an existing file.
Stats == {<<8, 1>>, <<8, 2>>}
\* What _get_file_metadata returns: None (the empty tuple here) or a stat pair.
None == <<>>
Metas == {None} \cup Stats

VARIABLES
    filename,            \* self._filename of every instance
    cls,                 \* the concrete class of every instance
    data,                \* self._data: the in-memory document
    buffered,            \* depth of the instance's buffered scopes
    cache,               \* cls._cache: per class, path -> entry
    cached_collections,  \* cls._cached_collections: per class, a list
    fmeta,               \* the file system: path -> None or (size, mtime)
    fa,                  \* the _flush_buffer call in progress, if any
    last,                \* what the last call did (observation only)
    job                  \* the Job instances, their job document and workspace

vars == <<filename, cls, data, buffered, cache, cached_collections, fmeta, fa, last,
          job>>

\* ------------------------------------------------------------ pure helpers
\* json.dumps(x).encode(): a bytes object.
Encode(doc) == [type |-> "bytes", val |-> doc]

\* json.loads(blob): the document a bytes object encodes.
Decode(blob) == blob.val

\* FileBufferedCollection._hash: the md5 hexdigest, a str object.
Hash(blob) == [type |-> "str", val |-> blob.val]

\* self.to_base(): the instance's current document.
to_base(i) == data[i]

\* self._is_buffered
is_buffered(i) == buffered[i] > 0

\* self._cache of instance i
CacheOf(i) == cache[cls[i]]

InCache(i) == filename[i] \in DOMAIN CacheOf(i)

Entry(i) == CacheOf(i)[filename[i]]

\* d[k] = v on a mapping
Put(f, k, v) == [x \in DOMAIN f \cup {k} |-> IF x = k THEN v ELSE f[x]]

\* del d[k]
Del(f, k) == [x \in DOMAIN f \ {k} |-> f[x]]

\* No _flush_buffer call is running.  Of a running one: its class, its issues,
\* the list it found, and of every instance it has flushed: the instance, what
\* its _flush raised, the value it handed to _sync, and the entry its path had
\* before (in a list that is empty when there was none).
Idle == [active |-> FALSE, cls |-> "none", issues |-> <<>>, log |-> <<>>,
         reg0 |-> <<>>]

\* What a call did: the exception it raised (err, with the path it names), the
\* value it returned (ret, issues), the value it handed to _sync (synced) and
\* whether it called os.stat (probe).
NoCall == [op |-> "none", inst |-> 0, cls |-> "none", err |-> "none",
           path |-> "none", ret |-> "none", synced |-> "none", probe |-> "none",
           issues |-> <<>>, log |-> <<>>, reg0 |-> <<>>]

\* get_cache(): the cache store a subclass gets in __init_subclass__, a fresh
\* and empty in-process mapping.
get_cache == <<>>

\* Job instances outside every with-block: nothing in 'executing', the document
\* lock free, the workspace directory created by Job.__init__.  Of an instance:
\* where it is in __enter__ or __exit__ (pc), how many with-blocks it is inside
\* (depth), whether self._cwd is set (cwd), whether the running __exit__ got an
\* exception (failed), and what num_open_instances() returned to it (seen).
\* The job's record, storage and document exist (rec).
JobIdle == [executing |-> <<>>, lock |-> 0, wd |-> TRUE, rec |-> TRUE,
            pc |-> [i \in Inst |-> "idle"], depth |-> [i \in Inst |-> 0],
            cwd |-> [i \in Inst |-> FALSE], failed |-> [i \in Inst |-> FALSE],
            seen |-> [i \in Inst |-> 0]]

\* ------------------------------------------------------------------- Init
\* The state after construction: instances with their paths, classes and
\* documents; nothing buffered, nothing cached, nothing registered.
InitWith(files, classes, docs) ==
    /\ filename \in files
    /\ cls \in classes
    /\ data \in docs
    /\ buffered = [i \in Inst |-> 0]
    /\ cache = [t \in Types |-> get_cache]
    /\ cached_collections = [t \in Types \cup {Base} |-> <<>>]
    /\ fmeta \in {f \in [Paths -> Metas] :
                    \A p \in Paths : (\A i \in Inst : filename[i] # p) => f[p] = None}
    /\ fa = Idle
    /\ last = NoCall
    /\ job = JobIdle

\* Two instances of one backend class that point at the same file.
Init == InitWith({[i \in Inst |-> "a.json"]}, {[i \in Inst |-> "JSONDict"]},
                 [Inst -> Docs])

\* Two instances of two backend classes that point at the same file.
InitTypes == InitWith({[i \in Inst |-> "a.json"]},
                      {[i \in Inst |-> IF i = 1 THEN "JSONDict" ELSE "JSONList"]},
                      {[i \in Inst |-> IF i = 1 THEN "x1" ELSE "x2"]})

\* Two instances of one backend class on two files, each with its document.
InitPaths == InitWith({[i \in Inst |-> IF i = 1 THEN "a.json" ELSE "b.json"]},
                      {[i \in Inst |-> "JSONDict"]},
                      {[i \in Inst |-> IF i = 1 THEN "x1" ELSE "x2"]})

\* ------------------------------------------------- the framework (external)
Call(op, i) == [NoCall EXCEPT !.op = op, !.inst = i]

\* The caller can start a call: no call is waiting to return, no drain is running.
Ready == ~fa.active /\ last = NoCall

\* The call recorded in last returns to its caller.
Return ==
    /\ ~fa.active
    /\ last # NoCall
    /\ last' = NoCall
    /\ UNCHANGED <<job, filename, cls, data, buffered, cache, cached_collections, fmeta, fa>>

\* with collection.buffered(): entering a (possibly nested) buffered scope.
EnterBuffered(i) ==
    /\ Ready
    /\ buffered[i] < MaxDepth
    /\ buffered' = [buffered EXCEPT ![i] = @ + 1]
    /\ last' = NoCall
    /\ UNCHANGED <<job, filename, cls, data, cache, cached_collections, fmeta, fa>>

\* Leaving a buffered scope.  The flush it triggers is the action Flush.
ExitBuffered(i) ==
    /\ Ready
    /\ buffered[i] > 0
    /\ buffered' = [buffered EXCEPT ![i] = @ - 1]
    /\ last' = NoCall
    /\ UNCHANGED <<job, filename, cls, data, cache, cached_collections, fmeta, fa>>

\* An in-memory mutation of the document.
Mutate(i, d) ==
    /\ Ready
    /\ d # data[i]
    /\ data' = [data EXCEPT ![i] = d]
    /\ last' = NoCall
    /\ UNCHANGED <<job, filename, cls, buffered, cache, cached_collections, fmeta, fa>>

\* Another process creates, rewrites or removes the file at p.
ExternalModify(p, m) ==
    /\ fa.active \/ last = NoCall
    /\ \E i \in Inst : filename[i] = p
    /\ m # fmeta[p]
    /\ fmeta' = [fmeta EXCEPT ![p] = m]
    /\ last' = NoCall
    /\ UNCHANGED <<job, filename, cls, data, buffered, cache, cached_collections, fa>>

\* ------------------------------------------------------- _get_file_metadata
\* os.stat succeeded or failed with ENOENT: (st_size, st_mtime) or None.
\* Any other OSError is re-raised; the callers below choose that outcome.
get_file_metadata(i) == fmeta[filename[i]]

\* --------------------------------------------------------------- _load_buffer
\* The entry _load_buffer inserts on the first load of a path.
NewEntry(blob, meta) == [contents |-> blob, hash |-> Hash(blob), metadata |-> meta]

\* Mutant: the first load does not register the instance.
RegisterNot(reg, i) == reg

\* self._cached_collections.append(self)
Register(reg, i) == Append(reg, i)

\* Mutant: the load never finds the entry and retakes the snapshot.
HitNever(i) == FALSE

\* if self._filename in self._cache
Hit(i) == InCache(i)

Load(i) ==
    /\ Ready
    /\ is_buffered(i)
    /\ IF Hit(i)
       THEN /\ last' = [Call("load", i) EXCEPT !.ret = Decode(Entry(i).contents)]
            /\ UNCHANGED <<cache, cached_collections>>
       ELSE LET blob == Encode(to_base(i)) IN
            /\ Len(cached_collections[cls[i]]) < MaxReg
            /\ \/ \* os.stat fails with an errno other than ENOENT
                  /\ last' = [Call("load", i) EXCEPT !.err = "OSError", !.probe = "OSError"]
                  /\ UNCHANGED <<cache, cached_collections>>
               \/ /\ cache' = [cache EXCEPT ![cls[i]] =
                                 Put(@, filename[i], NewEntry(blob, get_file_metadata(i)))]
                  /\ cached_collections' =
                        [cached_collections EXCEPT ![cls[i]] = Register(@, i)]
                  /\ last' = [Call("load", i) EXCEPT !.ret = Decode(blob), !.probe = "ok"]
    /\ UNCHANGED <<job, filename, cls, data, buffered, fmeta, fa>>

\* --------------------------------------------------------------- _sync_buffer
\* Mutant: the store also retakes the baseline hash from the new contents.
StoreEntryRehash(entry, blob) == [entry EXCEPT !.contents = blob, !.hash = Hash(blob)]

\* self._cache[self._filename]['contents'] = blob
StoreEntry(entry, blob) == [entry EXCEPT !.contents = blob]

\* Mutant: a store without an entry silently creates one.
AssertFailsCreates(i) ==
    /\ cache' = [cache EXCEPT ![cls[i]] =
                    Put(@, filename[i], NewEntry(Encode(to_base(i)), None))]
    /\ last' = Call("store", i)

\* assert self._filename in self._cache, when it fails
AssertFails(i) ==
    /\ last' = [Call("store", i) EXCEPT !.err = "AssertionError"]
    /\ UNCHANGED cache

Store(i) ==
    /\ Ready
    /\ is_buffered(i)
    /\ IF ~InCache(i)
       THEN AssertFails(i)
       ELSE /\ cache' = [cache EXCEPT ![cls[i]] =
                           Put(@, filename[i], StoreEntry(Entry(i), Encode(to_base(i))))]
            /\ last' = Call("store", i)
    /\ UNCHANGED <<job, filename, cls, data, buffered, cached_collections, fmeta, fa>>

\* --------------------------------------------------------------------- _flush
\* if self._hash(blob) != cached_data['contents']: a str against a bytes object.
Changed(i, entry) == Hash(Encode(to_base(i))) # entry.contents

\* Mutant: the metadata comparison is left out.
ConflictNever(entry, meta) == FALSE

\* if cached_data['metadata'] != self._get_file_metadata()
Conflict(entry, meta) == entry.metadata # meta

\* Mutant: the flush materializes the baseline it hashed, not the contents.
MaterializeBaseline(entry) == entry.hash.val

\* self._data = json.loads(cached_data['contents'])
Materialize(entry) == Decode(entry.contents)

\* Mutant: the flush leaves the entry in the cache.
EvictNothing(c, i) == c

\* Mutant: the entry of the path is deleted from the cache of every class.
EvictEverywhere(c, i) == [t \in DOMAIN c |-> Del(c[t], filename[i])]

\* del self._cache[self._filename]
Evict(c, i) == [c EXCEPT ![cls[i]] = Del(@, filename[i])]

\* One way a call of _flush can end: the state it leaves and what it did.
Outcome(d, c, f, obs) == [data |-> d, cache |-> c, fmeta |-> f, obs |-> obs]

\* if not self._is_buffered: ... (otherwise nothing is done)
StillBuffered(i) == {Outcome(data, cache, fmeta, Call("flush", i))}

\* Mutant: the KeyError of the cache lookup is not swallowed.
AbsentRaises(i) ==
    {Outcome(data, cache, fmeta, [Call("flush", i) EXCEPT !.err = "KeyError"])}

\* except KeyError: pass
Absent(i) == {Outcome(data, cache, fmeta, Call("flush", i))}

\* Mutant: the probe's I/O error is reported as a metadata conflict.
ProbeFailsAsConflict(i) ==
    {Outcome(data, cache, fmeta,
             [Call("flush", i) EXCEPT !.err = "MetadataError", !.probe = "OSError",
                                      !.path = filename[i]])}

\* _get_file_metadata inside _flush: os.stat fails with an errno other than
\* ENOENT and the OSError is re-raised through _flush.
ProbeFails(i) ==
    {Outcome(data, cache, fmeta,
             [Call("flush", i) EXCEPT !.err = "OSError", !.probe = "OSError"])}

\* Mutant: the document is materialized from the buffer before the conflict is
\* raised.
RaiseConflictAfterMaterialize(i) ==
    {Outcome([data EXCEPT ![i] = Materialize(Entry(i))], cache, fmeta,
             [Call("flush", i) EXCEPT !.err = "MetadataError", !.probe = "ok",
                                      !.path = filename[i]])}

\* raise MetadataError(self._filename)
RaiseConflict(i) ==
    {Outcome(data, cache, fmeta,
             [Call("flush", i) EXCEPT !.err = "MetadataError", !.probe = "ok",
                                      !.path = filename[i]])}

\* Mutant: the entry is evicted even when _sync fails.
WriteThroughEvictsOnError(i) ==
    LET value == Materialize(Entry(i))
        d == [data EXCEPT ![i] = value]
    IN  {Outcome(d, Evict(cache, i), fmeta,
                 [Call("flush", i) EXCEPT !.err = "OSError", !.probe = "ok",
                                          !.synced = value])}
        \cup
        {Outcome(d, Evict(cache, i), [fmeta EXCEPT ![filename[i]] = s],
                 [Call("flush", i) EXCEPT !.probe = "ok", !.synced = value])
            : s \in Stats}

\* self._data = json.loads(...); self._sync(); del self._cache[self._filename]
\* _sync writes the file (its new stat is s) or fails with an OSError.
WriteThrough(i) ==
    LET value == Materialize(Entry(i))
        d == [data EXCEPT ![i] = value]
    IN  {Outcome(d, cache, fmeta,
                 [Call("flush", i) EXCEPT !.err = "OSError", !.probe = "ok",
                                          !.synced = value])}
        \cup
        {Outcome(d, Evict(cache, i), [fmeta EXCEPT ![filename[i]] = s],
                 [Call("flush", i) EXCEPT !.probe = "ok", !.synced = value])
            : s \in Stats}

\* The whole body of _flush: every way the call can end in the current state.
flush(i) ==
    IF is_buffered(i) THEN StillBuffered(i)
    ELSE IF ~InCache(i) THEN Absent(i)
    ELSE IF ~Changed(i, Entry(i))
    THEN {Outcome(data, Evict(cache, i), fmeta, Call("flush", i))}
    ELSE ProbeFails(i)
         \cup
         (IF Conflict(Entry(i), get_file_metadata(i))
          THEN RaiseConflict(i)
          ELSE WriteThrough(i))

Flush(i) ==
    /\ Ready
    /\ \E o \in flush(i) :
          /\ data' = o.data
          /\ cache' = o.cache
          /\ fmeta' = o.fmeta
          /\ last' = o.obs
    /\ UNCHANGED <<job, filename, cls, buffered, cached_collections, fa>>

\* -------------------------------------------------------------- _flush_buffer
\* issues = {}
FlushAllBegin(t) ==
    /\ Ready
    /\ fa' = [active |-> TRUE, cls |-> t, issues |-> <<>>, log |-> <<>>,
              reg0 |-> cached_collections[t]]
    /\ last' = NoCall
    /\ UNCHANGED <<job, filename, cls, data, buffered, cache, cached_collections, fmeta>>

\* Mutant: only the metadata conflict is caught.
CatchesConflictOnly(err) == err = "MetadataError"

\* except (OSError, MetadataError) as err
Catches(err) == err \in {"OSError", "MetadataError"}

\* issues[collection._filename] = err
Caught(issues, path, err) == Put(issues, path, err)

\* One turn of the loop: pop the last instance, flush it, catch what it raises.
FlushAllIter ==
    /\ fa.active
    /\ cached_collections[fa.cls] # <<>>
    /\ LET reg == cached_collections[fa.cls]
           collection == reg[Len(reg)]
       IN /\ cached_collections' =
                [cached_collections EXCEPT ![fa.cls] = SubSeq(reg, 1, Len(reg) - 1)]
          /\ \E o \in flush(collection) :
                LET err == o.obs.err
                    log == Append(fa.log,
                                  <<collection, err, o.obs.synced,
                                    IF InCache(collection) THEN <<Entry(collection)>>
                                                           ELSE <<>> >>)
                IN /\ data' = o.data
                   /\ cache' = o.cache
                   /\ fmeta' = o.fmeta
                   /\ IF err = "none"
                      THEN /\ fa' = [fa EXCEPT !.log = log]
                           /\ last' = o.obs
                      ELSE IF Catches(err)
                      THEN /\ fa' = [fa EXCEPT !.log = log,
                                     !.issues = Caught(@, filename[collection], err)]
                           /\ last' = o.obs
                      ELSE \* any other exception leaves the loop
                           /\ fa' = Idle
                           /\ last' = [NoCall EXCEPT !.op = "flush_all", !.cls = fa.cls,
                                          !.err = err, !.log = log, !.reg0 = fa.reg0]
    /\ UNCHANGED <<job, filename, cls, buffered>>

\* return issues
FlushAllReturn ==
    /\ fa.active
    /\ cached_collections[fa.cls] = <<>>
    /\ fa' = Idle
    /\ last' = [NoCall EXCEPT !.op = "flush_all", !.cls = fa.cls,
                              !.issues = fa.issues, !.log = fa.log, !.reg0 = fa.reg0]
    /\ UNCHANGED <<job, filename, cls, data, buffered, cache, cached_collections, fmeta>>

\* ------------------------------------------------------------------- Spec
Next ==
    \/ \E i \in Inst : EnterBuffered(i)
    \/ \E i \in Inst : ExitBuffered(i)
    \/ \E i \in Inst, d \in Docs : Mutate(i, d)
    \/ \E p \in Paths, m \in Metas : ExternalModify(p, m)
    \/ \E i \in Inst : Load(i)
    \/ \E i \in Inst : Store(i)
    \/ \E i \in Inst : Flush(i)
    \/ \E t \in {cls[i] : i \in Inst} : FlushAllBegin(t)
    \/ FlushAllIter
    \/ FlushAllReturn
    \/ Return

Spec == Init /\ [][Next]_vars

\* The same calls on two files; the documents are not mutated in memory.
NextPaths ==
    \/ \E i \in Inst : EnterBuffered(i)
    \/ \E i \in Inst : ExitBuffered(i)
    \/ \E p \in Paths, m \in Metas : ExternalModify(p, m)
    \/ \E i \in Inst : Load(i)
    \/ \E i \in Inst : Store(i)
    \/ \E i \in Inst : Flush(i)
    \/ \E t \in {cls[i] : i \in Inst} : FlushAllBegin(t)
    \/ FlushAllIter
    \/ FlushAllReturn
    \/ Return

SpecPaths == InitPaths /\ [][NextPaths]_vars

\* The same calls by two instances of two backend classes on one file.
SpecTypes == InitTypes /\ [][NextPaths]_vars

\* -------------------------------------------------------------------- Job
\* The buffer is not touched by a Job.
JobFrame ==
    UNCHANGED <<filename, cls, data, buffered, cache, cached_collections, fmeta, fa,
                last>>

\* DocumentLock on the job document: nobody holds it.
LockFree == job.lock = 0

\* _add_instance: {'$push': {'executing': self._unique_id}}
add_instance(executing, i) == Append(executing, i)

\* _remove_instance: {'$pull': {'executing': self._unique_id}} removes every
\* occurrence of the id.
remove_instance(executing, i) == SelectSeq(executing, LAMBDA u : u # i)

\* num_open_instances(): len(job_doc.get('executing', list()))
num_open_instances == Len(job.executing)

\* __enter__: open(): with self._get_lock(), the lock is acquired.
JobEnter(i) ==
    /\ job.pc[i] = "idle"
    /\ job.depth[i] < MaxNest
    /\ LockFree
    /\ job' = [job EXCEPT !.lock = i, !.pc[i] = "open"]
    /\ JobFrame

\* _open: self._cwd = os.getcwd(); self._create_directories();
\* os.chdir(workspace); self._add_instance(), an update that matches nothing
\* when the job's record has been removed.
JobOpen(i) ==
    /\ job.pc[i] = "open"
    /\ job' = [job EXCEPT !.cwd[i] = TRUE, !.wd = TRUE,
                          !.executing = IF job.rec THEN add_instance(@, i) ELSE @,
                          !.pc[i] = "opened"]
    /\ JobFrame

\* open() leaves its with-statement (the lock is released); __enter__ returns.
JobEntered(i) ==
    /\ job.pc[i] = "opened"
    /\ job' = [job EXCEPT !.lock = 0, !.pc[i] = "idle", !.depth[i] = @ + 1]
    /\ JobFrame

\* __exit__(err_type, err_value, traceback): with self._get_lock(); failed says
\* that err_type is not None.
JobExit(i, failed) ==
    /\ job.pc[i] = "idle"
    /\ job.depth[i] > 0
    /\ LockFree
    /\ job' = [job EXCEPT !.lock = i, !.pc[i] = "exit", !.failed[i] = failed,
                          !.depth[i] = @ - 1]
    /\ JobFrame

\* _close_with_error: os.chdir(self._cwd); self._cwd = None; _stop_pulse();
\* _remove_instance().  os.chdir(None) raises TypeError, which leaves __exit__
\* and its with-statement, as does len(result['executing']) when find_and_modify
\* finds no record (result is None).  After it, an __exit__ that got an
\* exception returns False and one that got none goes on to _close.
JobCloseWithError(i) ==
    /\ job.pc[i] = "exit"
    /\ IF ~job.cwd[i]
       THEN job' = [job EXCEPT !.lock = 0, !.pc[i] = "idle", !.failed[i] = FALSE]
       ELSE IF ~job.rec
       THEN job' = [job EXCEPT !.cwd[i] = FALSE, !.lock = 0, !.pc[i] = "idle",
                               !.failed[i] = FALSE]
       ELSE job' = [job EXCEPT !.cwd[i] = FALSE,
                               !.executing = remove_instance(@, i),
                               !.pc[i] = IF job.failed[i] THEN "return" ELSE "close"]
    /\ JobFrame

\* _close: if self.num_open_instances() == 0
JobObserve(i) ==
    /\ job.pc[i] = "close"
    /\ job' = [job EXCEPT !.seen[i] = num_open_instances, !.pc[i] = "rmtree"]
    /\ JobFrame

\* _close: shutil.rmtree(self.get_workspace_directory(), ignore_errors = True)
JobClose(i) ==
    /\ job.pc[i] = "rmtree"
    /\ job' = [job EXCEPT !.wd = IF job.seen[i] = 0 THEN FALSE ELSE @,
                          !.seen[i] = 0, !.pc[i] = "return"]
    /\ JobFrame

\* __exit__ leaves its with-statement (the lock is released) and returns.
JobExited(i) ==
    /\ job.pc[i] = "return"
    /\ job' = [job EXCEPT !.lock = 0, !.pc[i] = "idle", !.failed[i] = FALSE]
    /\ JobFrame

\* remove(force = False): if not self.num_open_instances() == 0: raise
\* RuntimeError(...); no lock is taken.  An instance whose remove went through
\* has no _id left (del self.spec['_id']) and cannot be used again.
JobRemoveCheck(i) ==
    /\ job.pc[i] = "idle"
    /\ job.rec
    /\ job' = [job EXCEPT !.pc[i] = IF num_open_instances = 0 THEN "remove"
                                                              ELSE "raise"]
    /\ JobFrame

\* raise RuntimeError(msg.format(self.num_open_instances()))
JobRemoveRaises(i) ==
    /\ job.pc[i] = "raise"
    /\ job' = [job EXCEPT !.pc[i] = "idle"]
    /\ JobFrame

\* _remove: clear(); self._storage.remove(); self._dbdocument.remove();
\* shutil.rmtree(workspace); get_jobs_collection().remove(self._job_doc_spec()):
\* the record goes with its 'executing' list.
remove(j) == [j EXCEPT !.wd = FALSE, !.rec = FALSE, !.executing = <<>>]

\* self._remove(); del self.spec['_id']
JobRemove(i) ==
    /\ job.pc[i] = "remove"
    /\ job' = [remove(job) EXCEPT !.pc[i] = "removed"]
    /\ JobFrame

\* Job instances of one job id, each in its own process, used in with-blocks.
InitJob == InitPaths /\ \A p \in Paths : fmeta[p] = None

NextJob ==
    \/ \E i \in Inst : JobEnter(i)
    \/ \E i \in Inst : JobOpen(i)
    \/ \E i \in Inst : JobEntered(i)
    \/ \E i \in Inst, failed \in BOOLEAN : JobExit(i, failed)
    \/ \E i \in Inst : JobCloseWithError(i)
    \/ \E i \in Inst : JobObserve(i)
    \/ \E i \in Inst : JobClose(i)
    \/ \E i \in Inst : JobExited(i)

SpecJob == InitJob /\ [][NextJob]_vars

\* The same instances, which may also call remove().
NextRemove ==
    \/ \E i \in Inst : JobEnter(i)
    \/ \E i \in Inst : JobOpen(i)
    \/ \E i \in Inst : JobEntered(i)
    \/ \E i \in Inst, failed \in BOOLEAN : JobExit(i, failed)
    \/ \E i \in Inst : JobCloseWithError(i)
    \/ \E i \in Inst : JobObserve(i)
    \/ \E i \in Inst : JobClose(i)
    \/ \E i \in Inst : JobExited(i)
    \/ \E i \in Inst : JobRemoveCheck(i)
    \/ \E i \in Inst : JobRemoveRaises(i)
    \/ \E i \in Inst : JobRemove(i)

SpecRemove == InitJob /\ [][NextRemove]_vars


\* ================================================================== claims
\* The step is a call of _flush by instance i (alone or inside _flush_buffer).
FlushStep(i) == last'.op = "flush" /\ last'.inst = i

LoadStep(i) == last'.op = "load" /\ last'.inst = i

StoreStep(i) == last'.op = "store" /\ last'.inst = i

\* The digest of the instance's current serialized state differs from the
\* baseline hash recorded at first load.
DigestDiffers(i) == Hash(Encode(to_base(i))) # Entry(i).hash

\* The file's metadata differs from the baseline recorded at first load.
MetadataDiffers(i) == Entry(i).metadata # fmeta[filename[i]]

HasEntry(c, i) == filename[i] \in DOMAIN c[cls[i]]

\* C1: a store-while-buffered puts the serialized current document in the
\* entry, and a flush-one of the unbuffered instance whose file was not
\* modified during buffering, when it raises nothing, hands to _sync the
\* decoding of the last stored contents (the document's final form when the
\* document was stored) and leaves no entry for the path; it does hand a value
\* to _sync whenever the document differs from the baseline.
C1_FlushCommitsLastStore ==
    [][\A i \in Inst :
        /\ (StoreStep(i) /\ last'.err = "none")
              => /\ HasEntry(cache', i)
                 /\ cache'[cls[i]][filename[i]].contents = Encode(data[i])
        /\ (FlushStep(i) /\ ~is_buffered(i) /\ InCache(i) /\ ~MetadataDiffers(i)
               /\ last'.err = "none")
              => /\ last'.synced \in {"none", Decode(Entry(i).contents)}
                 /\ DigestDiffers(i) => last'.synced = Decode(Entry(i).contents)
                 /\ Entry(i).contents = Encode(data[i]) /\ DigestDiffers(i)
                       => last'.synced = data[i]
                 /\ ~HasEntry(cache', i)
      ]_vars

\* C1 witness: a flush-one wrote a document through that an earlier store had
\* put in the buffer, and the path has no entry.
C1_Witness ==
    /\ last.op = "flush" /\ last.err = "none" /\ ~fa.active
    /\ last.synced # "none" /\ last.synced = data[last.inst]
    /\ ~InCache(last.inst)
    /\ \A i \in Inst : ~is_buffered(i)

\* C2: when the file's metadata differs from the baseline and the digest of the
\* current state differs from the baseline hash, a flush-one of the unbuffered
\* instance (whose os.stat call succeeds) raises MetadataError naming the path
\* and the entry is still present, unchanged.
C2_ConflictRaises ==
    [][\A i \in Inst :
        (FlushStep(i) /\ ~is_buffered(i) /\ InCache(i) /\ MetadataDiffers(i)
            /\ DigestDiffers(i) /\ last'.probe # "OSError")
          => /\ last'.err = "MetadataError"
             /\ last'.path = filename[i]
             /\ HasEntry(cache', i)
             /\ cache' = cache
      ]_vars

\* C2 witness: a flush-one raised MetadataError for a changed document whose file
\* was modified, and the entry is still there.
C2_Witness ==
    /\ last.op = "flush" /\ last.err = "MetadataError" /\ ~fa.active
    /\ InCache(last.inst)
    /\ DigestDiffers(last.inst) /\ MetadataDiffers(last.inst)

\* The paths of the instances whose flush-one, inside the _flush_buffer call that
\* just returned, raised err.
PathsThatRaised(err) ==
    {filename[last.log[k][1]] : k \in {j \in DOMAIN last.log : last.log[j][2] = err}}

\* C3: _flush_buffer does not raise because of a MetadataError or OSError of an
\* instance.  It attempts flush-one for every instance that was registered, in
\* pop order, whatever the earlier ones raised; the keys of the mapping it
\* returns are exactly the paths whose flush-one raised, each mapped to the last
\* error raised for it, so with no file system failure they are exactly the
\* paths that hit a metadata conflict; and the path of every unbuffered instance
\* whose flush-one raised nothing has no entry afterward.
C3_FlushAllCollects ==
    last.op = "flush_all" =>
        LET log == last.log
            n == Len(log)
        IN  /\ last.err = "none"
            /\ n = Len(last.reg0)
            /\ \A k \in 1..n : log[k][1] = last.reg0[n + 1 - k]
            /\ DOMAIN last.issues = PathsThatRaised("MetadataError")
                                        \cup PathsThatRaised("OSError")
            /\ \A q \in DOMAIN last.issues :
                  \E k \in 1..n :
                     /\ filename[log[k][1]] = q
                     /\ log[k][2] = last.issues[q]
                     /\ \A j \in (k + 1)..n :
                           filename[log[j][1]] = q => log[j][2] = "none"
            /\ PathsThatRaised("OSError") = {}
                  => /\ DOMAIN last.issues = PathsThatRaised("MetadataError")
                     /\ \A q \in DOMAIN last.issues : last.issues[q] = "MetadataError"
            /\ \A k \in 1..n :
                  (log[k][2] = "none" /\ ~is_buffered(log[k][1]))
                     => filename[log[k][1]] \notin DOMAIN cache[last.cls]
            /\ cached_collections[last.cls] = <<>>

\* C3 witness: of two registered, unbuffered instances on two paths the first
\* one popped hit a metadata conflict and the other was still flushed: the
\* mapping holds the first path only, whose entry is kept, and the other path
\* has no entry.
C3_Witness ==
    /\ last.op = "flush_all" /\ last.err = "none"
    /\ Len(last.log) = 2
    /\ filename[last.log[1][1]] # filename[last.log[2][1]]
    /\ \A k \in DOMAIN last.log : ~is_buffered(last.log[k][1])
    /\ last.log[1][2] = "MetadataError" /\ last.log[2][2] = "none"
    /\ DOMAIN last.issues = {filename[last.log[1][1]]}
    /\ DOMAIN cache[last.cls] = {filename[last.log[1][1]]}

\* Some instance that shares the path (and the cache) of i is in a buffered scope.
SharedScopeOpen(i) ==
    \E j \in Inst : filename[j] = filename[i] /\ cls[j] = cls[i] /\ is_buffered(j)

\* The instance is in the list of its class: it did the first load of its path.
Registered(i) ==
    \E k \in DOMAIN cached_collections[cls[i]] : cached_collections[cls[i]][k] = i

\* C4: a flush-one by the instance that did the first load, with no mutation, no
\* store and no external change since (no file system failure, no buffered scope
\* open on the path), performs no durable commit and evicts the entry.
C4_UnchangedNoWrite ==
    [][\A i \in Inst :
        (FlushStep(i) /\ ~SharedScopeOpen(i) /\ InCache(i) /\ Registered(i)
            /\ Entry(i) = NewEntry(Encode(to_base(i)), fmeta[filename[i]])
            /\ last'.err # "OSError")
          => /\ last'.synced = "none"
             /\ last'.err = "none"
             /\ ~HasEntry(cache', i)
      ]_vars

\* C5: when the file's metadata differs from the baseline but the digest of the
\* current state equals the baseline hash, flush-one (with no file system
\* failure and no buffered scope open on the path) raises nothing, performs no durable commit and evicts the entry.
C5_SameDigestNoConflict ==
    [][\A i \in Inst :
        (FlushStep(i) /\ ~SharedScopeOpen(i) /\ InCache(i) /\ MetadataDiffers(i)
            /\ ~DigestDiffers(i) /\ last'.err # "OSError")
          => /\ last'.err = "none"
             /\ last'.synced = "none"
             /\ ~HasEntry(cache', i)
      ]_vars

\* C6: flush-one on a path is a no-op (no commit, no eviction, entry unchanged)
\* whenever the calling instance or any other instance sharing the path is still
\* inside a buffered scope.
C6_NoFlushWhileScopeOpen ==
    [][\A i \in Inst :
        (FlushStep(i) /\ SharedScopeOpen(i))
          => /\ cache' = cache
             /\ last'.synced = "none"
             /\ last'.err = "none"
      ]_vars

\* C7: a store-while-buffered on a path with no entry fails with an assertion
\* failure and leaves the cache as it was, without an entry for the path.
C7_StoreWithoutEntryFails ==
    [][\A i \in Inst :
        (StoreStep(i) /\ ~InCache(i))
          => /\ last'.err = "AssertionError"
             /\ cache' = cache
             /\ ~HasEntry(cache', i)
      ]_vars

\* C7 witness: a store failed its assertion because a sibling's flush had
\* evicted the shared entry; the path still has no entry.
C7_Witness ==
    /\ last.op = "store" /\ last.err = "AssertionError"
    /\ ~InCache(last.inst)
    /\ cached_collections[cls[last.inst]] # <<>>

\* C8: as long as a path keeps its entry, the entry's hash and metadata are the
\* ones of the first load: no store, further load, nested re-entry or call by a
\* sibling instance changes them.
C8_BaselineFrozen ==
    [][\A t \in Types : \A p \in DOMAIN cache[t] \cap DOMAIN cache'[t] :
          /\ cache'[t][p].hash = cache[t][p].hash
          /\ cache'[t][p].metadata = cache[t][p].metadata
      ]_vars

\* C8 witness: after a store by an instance in a nested scope the entry holds new
\* contents under the old baseline hash, and baseline metadata that the file no
\* longer has.
C8_Witness ==
    /\ last.op = "store" /\ last.err = "none"
    /\ buffered[last.inst] = MaxDepth
    /\ Entry(last.inst).hash # Hash(Entry(last.inst).contents)
    /\ MetadataDiffers(last.inst)

\* C9: a load-while-buffered on a path that has an entry returns the decoding of
\* the entry's contents and changes nothing: no os.stat call, the cache, the
\* registry, the file and the document are as before.
C9_CachedLoadIsPure ==
    [][\A i \in Inst :
        (LoadStep(i) /\ InCache(i))
          => /\ last'.ret = Decode(Entry(i).contents)
             /\ last'.err = "none"
             /\ last'.probe = "none"
             /\ cache' = cache
             /\ cached_collections' = cached_collections
             /\ fmeta' = fmeta
             /\ data' = data
      ]_vars

\* C9 witness: a load returned from the buffer a document that a sibling had
\* stored, which is not the loading instance's own document.
C9_Witness ==
    /\ last.op = "load" /\ last.err = "none" /\ last.probe = "none"
    /\ InCache(last.inst)
    /\ last.ret = Decode(Entry(last.inst).contents)
    /\ last.ret # data[last.inst]
    /\ last.inst \notin {cached_collections[cls[last.inst]][k] :
                            k \in DOMAIN cached_collections[cls[last.inst]]}

\* C10: a flush-one of an unbuffered instance whose path has no entry raises
\* nothing and changes nothing: no commit, no os.stat call, the cache, the
\* document and the file as before, and the registry too when the call is not
\* made by _flush_buffer (which pops the instance itself).
C10_FlushWithoutEntryIsNoop ==
    [][\A i \in Inst :
        (FlushStep(i) /\ ~is_buffered(i) /\ ~InCache(i))
          => /\ last'.err = "none"
             /\ last'.synced = "none"
             /\ last'.probe = "none"
             /\ cache' = cache
             /\ data' = data
             /\ fmeta' = fmeta
             /\ ~fa.active => cached_collections' = cached_collections
      ]_vars

\* C10 witness: an instance that never loaded flushed after its sibling had
\* loaded, flushed and so evicted the shared path; nothing happened.
C10_Witness ==
    /\ last.op = "flush" /\ last.err = "none" /\ ~fa.active
    /\ last.probe = "none" /\ last.synced = "none"
    /\ ~is_buffered(last.inst) /\ ~InCache(last.inst)
    /\ cached_collections[cls[last.inst]] # <<>>
    /\ \A k \in DOMAIN cached_collections[cls[last.inst]] :
          cached_collections[cls[last.inst]][k] # last.inst

\* The instances in a list of registered instances.
Members(reg) == {reg[k] : k \in DOMAIN reg}

\* C11: in every reachable state each instance appears at most once in the
\* registry of its backend class, and of the instances of one path at most one
\* is registered.
C11_RegisteredOnce ==
    \A t \in Types :
       \A k, j \in DOMAIN cached_collections[t] :
          k # j => /\ cached_collections[t][k] # cached_collections[t][j]
                   /\ filename[cached_collections[t][k]]
                         # filename[cached_collections[t][j]]

\* C12: when _flush_buffer returns, the registry is empty and flush-one has been
\* attempted exactly once for each instance that was registered when it was
\* called (and for no other); a call that finds nothing registered returns an
\* empty mapping.
C12_EachInstanceOnce ==
    last.op = "flush_all" =>
        /\ cached_collections[last.cls] = <<>>
        /\ \A i \in Inst :
              Cardinality({k \in DOMAIN last.log : last.log[k][1] = i})
                 = (IF i \in Members(last.reg0) THEN 1 ELSE 0)
        /\ last.reg0 = <<>> => last.issues = <<>>

\* C13: the metadata probe returns None, raising nothing, when the file does not
\* exist: a first load then records None as the baseline (and only then), and a
\* flush-one reports a conflict only if the baseline was not None.  When os.stat
\* fails otherwise, load-while-buffered and flush-one raise that OSError, never
\* MetadataError, and leave the cache as it was.
C13_ProbeAbsentOrPropagates ==
    [][\A i \in Inst :
        /\ ((LoadStep(i) \/ FlushStep(i)) /\ last'.probe = "OSError")
              => /\ last'.err = "OSError"
                 /\ cache' = cache
        /\ (LoadStep(i) /\ last'.probe = "ok")
              => /\ last'.err = "none"
                 /\ HasEntry(cache', i)
                 /\ (cache'[cls[i]][filename[i]].metadata = None)
                       <=> (fmeta[filename[i]] = None)
        /\ (FlushStep(i) /\ last'.probe = "ok" /\ fmeta[filename[i]] = None)
              => (last'.err = "MetadataError" <=> Entry(i).metadata # None)
      ]_vars

\* C13 witness: a flush-one raised the OSError of its os.stat call although the
\* file's metadata differs from the baseline; the entry is still there.
C13_Witness ==
    /\ last.op = "flush" /\ last.probe = "OSError" /\ last.err = "OSError"
    /\ ~fa.active
    /\ InCache(last.inst)
    /\ MetadataDiffers(last.inst)

\* C14 as stated: after a flush-one of an unbuffered instance whose path had an
\* entry, the entry is still there exactly when the call raised MetadataError;
\* it is evicted when os.stat or _sync raised an OSError.
C14_EvictedUnlessConflict ==
    [][\A i \in Inst :
        (FlushStep(i) /\ ~is_buffered(i) /\ InCache(i))
          => (HasEntry(cache', i) <=> last'.err = "MetadataError")
      ]_vars

\* C14 amended: after a flush-one of an unbuffered instance whose path had an
\* entry, the entry is evicted exactly when the call raised nothing; when it
\* raised MetadataError, or the OSError of os.stat or of _sync, the entry is
\* still there with the contents, hash and metadata it had.
C14_EvictedUnlessRaises ==
    [][\A i \in Inst :
        (FlushStep(i) /\ ~is_buffered(i) /\ InCache(i))
          => /\ HasEntry(cache', i) <=> last'.err \in {"MetadataError", "OSError"}
             /\ last'.err # "none" => cache' = cache
             /\ last'.err = "none" => cache' = Evict(cache, i)
      ]_vars

\* C14 witness: a flush-one handed the document to _sync, _sync raised an
\* OSError, and the entry is still there.
C14_Witness ==
    /\ last.op = "flush" /\ last.err = "OSError" /\ last.probe = "ok"
    /\ last.synced # "none"
    /\ ~fa.active
    /\ ~is_buffered(last.inst)
    /\ InCache(last.inst)

\* The turns of the _flush_buffer call that just returned that flushed an
\* instance of path p.
TurnsOf(p) == {k \in DOMAIN last.log : filename[last.log[k][1]] = p}

\* The first of these turns.
FirstTurn(p) == CHOOSE k \in TurnsOf(p) : \A j \in TurnsOf(p) : k <= j

C16_EntriesStayRegistered ==
    (~fa.active /\ last.op # "flush") =>
        \A t \in Types : \A q \in DOMAIN cache[t] :
           \E i \in Members(cached_collections[t]) : filename[i] = q

\* C17: a flush-one that raises MetadataError does nothing else: nothing is
\* handed to _sync, the instance's document is not replaced, the file is as it
\* was, and the entry keeps its contents, hash and metadata.
C17_ConflictHasNoOtherEffect ==
    [][\A i \in Inst :
        (FlushStep(i) /\ last'.err = "MetadataError")
          => /\ last'.synced = "none"
             /\ data' = data
             /\ fmeta' = fmeta
             /\ HasEntry(cache', i)
             /\ cache' = cache
      ]_vars

\* C17 witness: a flush-one raised MetadataError while the buffer held contents
\* other than the instance's document; the document was not replaced.
C17_Witness ==
    /\ last.op = "flush" /\ last.err = "MetadataError" /\ last.synced = "none"
    /\ ~fa.active
    /\ InCache(last.inst)
    /\ data[last.inst] # Decode(Entry(last.inst).contents)

\* C18: a first load-while-buffered of a path without an entry, when os.stat does
\* not fail, inserts the entry {contents: the serialized current document, hash:
\* the digest of these contents, metadata: what the probe returns, None exactly
\* when the file does not exist}, touches no other entry, appends the instance
\* to the list of its class and returns the decoding of the contents; when
\* os.stat fails with an OSError, no entry is inserted and nothing is appended.
C18_FirstLoadSnapshots ==
    [][\A i \in Inst :
        (LoadStep(i) /\ ~InCache(i))
          => IF last'.probe = "OSError"
             THEN /\ last'.err = "OSError"
                  /\ cache' = cache
                  /\ cached_collections' = cached_collections
             ELSE /\ last'.err = "none"
                  /\ HasEntry(cache', i)
                  /\ cache'[cls[i]][filename[i]].contents = Encode(data[i])
                  /\ cache'[cls[i]][filename[i]].hash
                        = Hash(cache'[cls[i]][filename[i]].contents)
                  /\ cache'[cls[i]][filename[i]].metadata = fmeta[filename[i]]
                  /\ (cache'[cls[i]][filename[i]].metadata = None)
                        <=> (fmeta[filename[i]] \notin Stats)
                  /\ cache' = [cache EXCEPT ![cls[i]] =
                                  Put(@, filename[i], cache'[cls[i]][filename[i]])]
                  /\ cached_collections' =
                        [cached_collections EXCEPT ![cls[i]] = Append(@, i)]
                  /\ last'.ret = Decode(cache'[cls[i]][filename[i]].contents)
                  /\ last'.ret = data[i]
      ]_vars

\* C18 witness: a first load of a path whose file does not exist returned the
\* document, recorded None as the baseline metadata and registered the instance
\* last.
C18_Witness ==
    /\ last.op = "load" /\ last.err = "none" /\ last.probe = "ok"
    /\ InCache(last.inst)
    /\ Entry(last.inst) = NewEntry(Encode(data[last.inst]), None)
    /\ fmeta[filename[last.inst]] = None
    /\ last.ret = data[last.inst]
    /\ cached_collections[cls[last.inst]] # <<>>
    /\ cached_collections[cls[last.inst]][Len(cached_collections[cls[last.inst]])]
          = last.inst

\* The cache and the list of class t are as they were.
TypeUntouched(t) ==
    /\ cache'[t] = cache[t]
    /\ cached_collections'[t] = cached_collections[t]

C20_WorkspaceKeptWhileOpen ==
    [][/\ \A i \in Inst :
             (job.pc[i] \in {"exit", "return"} /\ job'.pc[i] = "idle")
                => i \notin Members(job'.executing)
       /\ (job.wd /\ ~job'.wd)
             => \E i \in Inst :
                   /\ job.lock = i
                   /\ job.pc[i] = "rmtree"
                   /\ job.executing = <<>>
                   /\ \A j \in Inst \ {i} : job.depth[j] = 0
      ]_vars

\* C21: remove(force = False) never removes a job that has an open instance: a
\* call that finds 'executing' non-empty raises RuntimeError and changes nothing
\* (storage, document, workspace and record as before), and whenever the job is
\* removed, 'executing' is empty, also when an instance opens the job while
\* remove runs.
C21_RemoveSparesOpenJob ==
    [][/\ \A i \in Inst :
             (job.pc[i] = "idle" /\ job'.pc[i] # "idle" /\ job.executing # <<>>
                 /\ job'.pc[i] \in {"remove", "raise"})
                => /\ job'.pc[i] = "raise"
                   /\ job' = [job EXCEPT !.pc[i] = "raise"]
       /\ \A i \in Inst :
             (job.pc[i] = "raise" /\ job'.pc[i] # "raise")
                => job' = [job EXCEPT !.pc[i] = "idle"]
       /\ (job.rec /\ ~job'.rec) => job.executing = <<>>
      ]_vars

=============================================================================
